---- MODULE Spec2Model ----
(***************************************************************************)
(* RingsSkyMap (python/lsst/skymap/ringsSkyMap.py): the sphere is cut into *)
(* numRings rings of declination plus two polar caps; every ring is cut in *)
(* RA into ringNums[ring] tracts.  A tract has a linear index; the module  *)
(* models the decode index -> (ring, tractNum) of getRingIndices, the      *)
(* tract centers of generateTract, the encode helpers _decToRingNum and    *)
(* _raToTractNum, and the queries findTract and findAllTracts, for both    *)
(* numbering versions.                                                     *)
(*                                                                         *)
(* Angles are exact integers.  Declination is counted in units of          *)
(* ringSize/(2*Res): a ring spans 2*Res units and the poles are at         *)
(* -/+ (numRings+1)*Res.  RA is counted in units of 2*pi/Circle(n), where  *)
(* Circle(n) is a multiple of 2*Res*ringNums[r] for every ring r, so that  *)
(* tract centers, the midpoints between two centers, and Res-1 points      *)
(* strictly between a center and a midpoint are all representable.         *)
(***************************************************************************)
EXTENDS Integers, Sequences, FiniteSets, TLC

\* Largest numRings of the configurations explored.
MaxRings == 3

\* Angular resolution: grid steps per half ring (Dec) and per half tract (RA).
Res == 2

\* Longest coordinate list handed to findTractPatchList.
MaxCoords == 2

\* Most tracts of a BaseSkyMap.
MaxTracts == 3

\* Largest angular separation of a coordinate from a tract center, in steps.
MaxSep == 2

VARIABLES
    numRings,      \* config.numRings
    version,       \* self._version
    raStart,       \* self._raStart, in RA units
    tractOverlap,  \* config.tractOverlap, in Dec units
    tractInfoList, \* BaseSkyMap._tractInfoList: [id, addr] of each tract
    tractCache,    \* CachingSkyMap._tractCache: index -> center of the TractInfo
    genCalls,      \* index -> number of generateTract(index) invocations so far
    lastOp,        \* the operation that ran last
    lastArg,       \* its argument: <<index>>, <<ra, dec>>, a list of <<ra, dec>>, or
                   \* the separations of a coordinate from the tract centers
    result,        \* ids of the tracts it returned, in order (with the patch
                   \* list of each for findTractPatchList)
    raised         \* "none", or the exception it raised

vars == <<numRings, version, raStart, tractOverlap, tractInfoList, tractCache,
          genCalls,
          lastOp, lastArg, result, raised>>

----------------------------------------------------------------------------
\* Arithmetic helpers.

Min(a, b) == IF a < b THEN a ELSE b

Abs(a) == IF a < 0 THEN -a ELSE a

RECURSIVE Gcd(_, _)
Gcd(a, b) == IF b = 0 THEN a ELSE Gcd(b, a % b)

Lcm(a, b) == (a * b) \div Gcd(a, b)

RECURSIVE LcmSeq(_)
LcmSeq(s) == IF s = <<>> THEN 1 ELSE Lcm(Head(s), LcmSeq(Tail(s)))

\* Python's sum(s[:k], start): the slice stops at the end of the list.
RECURSIVE SumSlice(_, _, _)
SumSlice(s, k, start) ==
    IF k <= 0 \/ s = <<>> THEN start
    ELSE SumSlice(Tail(s), k - 1, start + Head(s))

----------------------------------------------------------------------------
\* Ring layout (RingsSkyMap.__init__).

\* self._ringNums for numRings = 1..5: the loop of __init__,
\* int(2*pi*cos(dec)/ringSize) + 1 per ring, evaluated in IEEE double.
RingNumsTable ==
    << <<3>>,
       <<7, 7>>,
       <<8, 8, 8>>,
       <<9, 11, 11, 9>>,
       <<9, 12, 12, 12, 9>> >>

ringNums(n) == RingNumsTable[n]

\* numTracts = sum(self._ringNums) + 2, per numRings.
NumTractsTable ==
    [n \in 1..Len(RingNumsTable) |-> SumSlice(ringNums(n), n, 0) + 2]

NumTracts(n) == NumTractsTable[n]

\* self._ringSize, in Dec units.
ringSize == 2 * Res

\* pi/2 in Dec units: (numRings + 1) rings of ringSize span pi.
HalfPi(n) == (n + 1) * Res

\* The least common multiple of the tract counts of the rings, per numRings.
LcmTable == [n \in 1..Len(RingNumsTable) |-> LcmSeq(ringNums(n))]

\* 2*pi in RA units.
Circle(n) == 2 * Res * LcmTable[n]

\* Angle.wrap(): normalise an RA into [0, 2*pi).
wrap(n, a) == a % Circle(n)

----------------------------------------------------------------------------
\* Index decode (RingsSkyMap.getRingIndices) and tract generation.

\* The loop with the version-0 test (>) in both versions.
RECURSIVE RingLoopStrict(_, _, _, _)
RingLoopStrict(ver, n, ring, tractNum) ==
    IF ring < n /\ tractNum > ringNums(n)[ring + 1]
    THEN RingLoopStrict(ver, n, ring + 1, tractNum - ringNums(n)[ring + 1])
    ELSE <<ring, tractNum>>

\* The loop with the version-1 test (>=) in both versions.
RECURSIVE RingLoopFixed(_, _, _, _)
RingLoopFixed(ver, n, ring, tractNum) ==
    IF ring < n /\ tractNum >= ringNums(n)[ring + 1]
    THEN RingLoopFixed(ver, n, ring + 1, tractNum - ringNums(n)[ring + 1])
    ELSE <<ring, tractNum>>

\* The two while loops of getRingIndices: version 0 leaves a ring when
\* tractNum > ringNums[ring], version 1 when tractNum >= ringNums[ring].
RECURSIVE RingLoop(_, _, _, _)
RingLoop(ver, n, ring, tractNum) ==
    IF ring < n /\ (IF ver = 0 THEN tractNum > ringNums(n)[ring + 1]
                               ELSE tractNum >= ringNums(n)[ring + 1])
    THEN RingLoop(ver, n, ring + 1, tractNum - ringNums(n)[ring + 1])
    ELSE <<ring, tractNum>>

\* The index check with index > numTracts in place of index >= numTracts.
IndexInRangeInclusive(n, index) ==
    \/ index = 0
    \/ index = NumTracts(n) - 1
    \/ ~(index < 0 \/ index > NumTracts(n))

\* The index check of getRingIndices: IndexError unless 0 <= index < numTracts
\* (index 0 and index numTracts-1 have returned before the check).
IndexInRange(n, index) ==
    \/ index = 0
    \/ index = NumTracts(n) - 1
    \/ ~(index < 0 \/ index >= NumTracts(n))

\* The decode started at tractNum = index, not index - 1.
getRingIndicesFromIndex(ver, n, index) ==
    IF index = 0 THEN <<-1, 0>>
    ELSE IF index = NumTracts(n) - 1 THEN <<n, 0>>
    ELSE RingLoop(ver, n, 0, index)

\* The decode started at tractNum = index in version 0 alone.
getRingIndicesV0FromIndex(ver, n, index) ==
    IF index = 0 THEN <<-1, 0>>
    ELSE IF index = NumTracts(n) - 1 THEN <<n, 0>>
    ELSE RingLoop(ver, n, 0, IF ver = 0 THEN index ELSE index - 1)

\* getRingIndices(index) for an index that raises no IndexError:
\* <<ring number, tract number within the ring>>.
getRingIndices(ver, n, index) ==
    IF index = 0 THEN <<-1, 0>>
    ELSE IF index = NumTracts(n) - 1 THEN <<n, 0>>
    ELSE RingLoop(ver, n, 0, index - 1)

\* generateTract without the wrap() of the RA.
generateTractNoWrap(ver, n, start, index) ==
    LET ri       == getRingIndices(ver, n, index)
        ringNum  == ri[1]
        tractNum == ri[2]
    IN  IF ringNum = -1 THEN <<0, -HalfPi(n)>>
        ELSE IF ringNum = n THEN <<0, HalfPi(n)>>
        ELSE <<(Circle(n) * tractNum) \div ringNums(n)[ringNum + 1] + start,
               ringSize * (ringNum + 1) - HalfPi(n)>>

\* generateTract with dec = ringSize*ringNum - pi/2 (the ring's lower
\* neighbour) for the ring tracts.
generateTractRingBelow(ver, n, start, index) ==
    LET ri       == getRingIndices(ver, n, index)
        ringNum  == ri[1]
        tractNum == ri[2]
    IN  IF ringNum = -1 THEN <<0, -HalfPi(n)>>
        ELSE IF ringNum = n THEN <<0, HalfPi(n)>>
        ELSE <<wrap(n, (Circle(n) * tractNum) \div ringNums(n)[ringNum + 1] + start),
               ringSize * ringNum - HalfPi(n)>>

\* generateTract with the polar caps centered at RA = raStart.
generateTractCapsAtRaStart(ver, n, start, index) ==
    LET ri       == getRingIndices(ver, n, index)
        ringNum  == ri[1]
        tractNum == ri[2]
    IN  IF ringNum = -1 THEN <<start, -HalfPi(n)>>
        ELSE IF ringNum = n THEN <<start, HalfPi(n)>>
        ELSE <<wrap(n, (Circle(n) * tractNum) \div ringNums(n)[ringNum + 1] + start),
               ringSize * (ringNum + 1) - HalfPi(n)>>

\* generateTract(index): the center <<ra, dec>> of the tract's TractInfo.
generateTract(ver, n, start, index) ==
    LET ri       == getRingIndices(ver, n, index)
        ringNum  == ri[1]
        tractNum == ri[2]
    IN  IF ringNum = -1 THEN <<0, -HalfPi(n)>>
        ELSE IF ringNum = n THEN <<0, HalfPi(n)>>
        ELSE <<wrap(n, (Circle(n) * tractNum) \div ringNums(n)[ringNum + 1] + start),
               ringSize * (ringNum + 1) - HalfPi(n)>>

----------------------------------------------------------------------------
\* Encode helpers and queries.

\* firstRingStart = ringSize*0.5 - 0.5*pi
firstRingStart(n) == Res - HalfPi(n)

\* _decToRingNum that also sends the first ring's start to the south cap.
decToRingNumOpenStart(n, dec) ==
    IF dec <= firstRingStart(n) THEN -1
    ELSE IF dec > -firstRingStart(n) THEN n
    ELSE (dec - firstRingStart(n)) \div ringSize

\* _decToRingNum(dec)
decToRingNum(n, dec) ==
    IF dec < firstRingStart(n) THEN -1
    ELSE IF dec > -firstRingStart(n) THEN n
    ELSE (dec - firstRingStart(n)) \div ringSize

\* _raToTractNum without the wrap of a result equal to ringNums[ringNum].
raToTractNumNoWrap(n, start, ra, ringNum) ==
    IF ringNum \in {-1, n} THEN 0
    ELSE LET count    == ringNums(n)[ringNum + 1]
             tractNum == (2 * wrap(n, ra - start) * count + Circle(n))
                             \div (2 * Circle(n))
         IN  tractNum

\* _raToTractNum that rounds an exact half down.
raToTractNumHalfDown(n, start, ra, ringNum) ==
    IF ringNum \in {-1, n} THEN 0
    ELSE LET count    == ringNums(n)[ringNum + 1]
             tractNum == (2 * wrap(n, ra - start) * count + Circle(n) - 1)
                             \div (2 * Circle(n))
         IN  IF tractNum = count THEN 0 ELSE tractNum

\* _raToTractNum(ra, ringNum): int(wrap(ra - raStart)/(2*pi/ringNums) + 0.5),
\* a result equal to ringNums[ringNum] wraps to 0.
raToTractNum(n, start, ra, ringNum) ==
    IF ringNum \in {-1, n} THEN 0
    ELSE LET count    == ringNums(n)[ringNum + 1]
             tractNum == (2 * wrap(n, ra - start) * count + Circle(n))
                             \div (2 * Circle(n))
         IN  IF tractNum = count THEN 0 ELSE tractNum

\* findTract without the version-0 step to the next ring.
findTractIndexNoCompensation(ver, n, start, coord) ==
    LET ringNum  == decToRingNum(n, coord[2])
        tractNum == raToTractNum(n, start, coord[1], ringNum)
    IN  IF ringNum = -1 THEN 0
        ELSE IF ringNum = n THEN NumTracts(n) - 1
        ELSE SumSlice(ringNums(n), ringNum, tractNum + 1)

\* findTract with the step to the next ring taken in both versions.
findTractIndexCompensateAlways(ver, n, start, coord) ==
    LET ringNum  == decToRingNum(n, coord[2])
        tractNum == raToTractNum(n, start, coord[1], ringNum)
        ring2    == IF tractNum = 0 /\ ringNum # 0
                    THEN ringNum + 1 ELSE ringNum
    IN  IF ringNum = -1 THEN 0
        ELSE IF ringNum = n THEN NumTracts(n) - 1
        ELSE SumSlice(ringNums(n), ring2, tractNum + 1)

\* findTract whose step to the next ring also skips one index.
findTractIndexCompensatePlusOne(ver, n, start, coord) ==
    LET ringNum  == decToRingNum(n, coord[2])
        tractNum == raToTractNum(n, start, coord[1], ringNum)
        stepped  == ver = 0 /\ tractNum = 0 /\ ringNum # 0
    IN  IF ringNum = -1 THEN 0
        ELSE IF ringNum = n THEN NumTracts(n) - 1
        ELSE IF stepped THEN SumSlice(ringNums(n), ringNum + 1, tractNum + 2)
        ELSE SumSlice(ringNums(n), ringNum, tractNum + 1)

\* findTract(coord): the index handed to self[...].
findTractIndex(ver, n, start, coord) ==
    LET ringNum  == decToRingNum(n, coord[2])
        tractNum == raToTractNum(n, start, coord[1], ringNum)
        ring2    == IF ver = 0 /\ tractNum = 0 /\ ringNum # 0
                    THEN ringNum + 1 ELSE ringNum
    IN  IF ringNum = -1 THEN 0
        ELSE IF ringNum = n THEN NumTracts(n) - 1
        ELSE SumSlice(ringNums(n), ring2, tractNum + 1)

\* findAllTracts, inner loop, without the wrap of tractNum + 1 at the end of
\* the ring.
ringProbesNoWrap(ver, n, start, ra, r) ==
    LET count    == ringNums(n)[r + 1]
        tractNum == raToTractNum(n, start, ra, r)
        Wrapped(t) == IF t < 0 THEN t + count ELSE t
        Index(t) == LET extra == IF ver = 0 /\ t = 0 /\ r # 0 THEN 1 ELSE 0
                    IN  SumSlice(ringNums(n), r + extra, t + 1)
    IN  << Index(Wrapped(tractNum - 1)),
           Index(Wrapped(tractNum)),
           Index(Wrapped(tractNum + 1)) >>

\* findAllTracts, inner loop over range(tractNum + 1, tractNum + 4): the
\* resolved position itself is not probed.
ringProbesAhead(ver, n, start, ra, r) ==
    LET count    == ringNums(n)[r + 1]
        tractNum == raToTractNum(n, start, ra, r)
        Wrapped(t) == IF t < 0 THEN t + count
                      ELSE IF t > count - 1 THEN t - count ELSE t
        Index(t) == LET extra == IF ver = 0 /\ t = 0 /\ r # 0 THEN 1 ELSE 0
                    IN  SumSlice(ringNums(n), r + extra, t + 1)
    IN  << Index(Wrapped(tractNum + 1)),
           Index(Wrapped(tractNum + 2)),
           Index(Wrapped(tractNum + 3)) >>

\* findAllTracts, inner loop, without the version-0 step to the next ring.
ringProbesNoExtra(ver, n, start, ra, r) ==
    LET count    == ringNums(n)[r + 1]
        tractNum == raToTractNum(n, start, ra, r)
        Wrapped(t) == IF t < 0 THEN t + count
                      ELSE IF t > count - 1 THEN t - count ELSE t
        Index(t) == SumSlice(ringNums(n), r, t + 1)
    IN  << Index(Wrapped(tractNum - 1)),
           Index(Wrapped(tractNum)),
           Index(Wrapped(tractNum + 1)) >>

\* findAllTracts, inner loop: the three indices probed in ring r, in order.
ringProbes(ver, n, start, ra, r) ==
    LET count    == ringNums(n)[r + 1]
        tractNum == raToTractNum(n, start, ra, r)
        Wrapped(t) == IF t < 0 THEN t + count
                      ELSE IF t > count - 1 THEN t - count ELSE t
        Index(t) == LET extra == IF ver = 0 /\ t = 0 /\ r # 0 THEN 1 ELSE 0
                    IN  SumSlice(ringNums(n), r + extra, t + 1)
    IN  << Index(Wrapped(tractNum - 1)),
           Index(Wrapped(tractNum)),
           Index(Wrapped(tractNum + 1)) >>

\* findAllTracts, outer loop: the rings ringNum-1, ringNum, ringNum+1 that
\* are real rings, then the two polar caps.
allProbes(ver, n, start, coord) ==
    LET ringNum == decToRingNum(n, coord[2])
        InRing(r) == IF r < 0 \/ r >= n THEN <<>>
                     ELSE ringProbes(ver, n, start, coord[1], r)
    IN  InRing(ringNum - 1) \o InRing(ringNum) \o InRing(ringNum + 1)
            \o <<0, NumTracts(n) - 1>>

----------------------------------------------------------------------------
\* TractInfo.contains and the tract cache of CachingSkyMap.

\* Distance of two RAs around the circle.
raDist(n, a, b) == Min(wrap(n, a - b), wrap(n, b - a))

\* TractInfo.contains(coord) of the tract centered at `center`: coord lies in
\* the tract's outer extent, the inner half-size (half a ring in Dec, half the
\* tract spacing of its ring in RA) grown by the overlap; a polar cap is the
\* disc of that radius around its pole.
contains(n, ov, center, coord) ==
    LET ringNum == decToRingNum(n, center[2])
    IN  /\ Abs(coord[2] - center[2]) <= Res + ov
        /\ \/ ringNum \in {-1, n}
           \/ raDist(n, coord[1], center[1]) * ringNums(n)[ringNum + 1]
                  <= (Res + ov) * LcmTable[n]

\* The cache and the generation counts as one value.
CacheState == [cache |-> tractCache, calls |-> genCalls]

\* __getitem__ that generates the tract whether or not it is cached.
getitemNoCache(st, ver, n, start, index) ==
    [cache |-> (index :> generateTract(ver, n, start, index)) @@ st.cache,
     calls |-> (index :> (IF index \in DOMAIN st.calls
                          THEN st.calls[index] ELSE 0) + 1) @@ st.calls]

\* CachingSkyMap.__getitem__(index) for an index in range: the cached tract
\* if there is one, else generateTract(index), stored.
getitem(st, ver, n, start, index) ==
    IF index \in DOMAIN st.cache THEN st
    ELSE [cache |-> (index :> generateTract(ver, n, start, index)) @@ st.cache,
          calls |-> (index :> (IF index \in DOMAIN st.calls
                               THEN st.calls[index] ELSE 0) + 1) @@ st.calls]

\* self[i] for every i of a list, in order, stopping at the first index that
\* raises IndexError.
RECURSIVE getitems(_, _, _, _, _)
getitems(st, ver, n, start, indices) ==
    IF indices = <<>> THEN st
    ELSE IF ~IndexInRange(n, Head(indices)) THEN st
    ELSE getitems(getitem(st, ver, n, start, Head(indices)),
                  ver, n, start, Tail(indices))

AllInRange(n, indices) ==
    \A k \in 1..Len(indices) : IndexInRange(n, indices[k])

\* The tract ids 0 .. numTracts-1 in ascending order (iteration order).
AllIds(n) == [k \in 1..NumTracts(n) |-> k - 1]

----------------------------------------------------------------------------
\* Inputs.

\* Starting RAs: 0, and one off the grid of tract centers, past pi.
RaStarts(n) == {0, (2 * Circle(n)) \div 3 + 1}

\* Overlaps smaller than half a ring.
Overlaps == {0, Res - 1}

\* Declinations: both poles and, in every band of ringSize from the first
\* ring's start, the lower edge, the point just above it, the middle (a tract
\* center) and the point just below the upper edge.
Decs(n) ==
    { d \in (-HalfPi(n))..HalfPi(n) :
        (d - firstRingStart(n)) % ringSize \in {0, 1, Res, ringSize - 1} }

\* RAs: 0 and, for every ring, on the grid of Res steps per half tract that
\* starts at raStart: each tract center, the midpoint to the next center, and
\* the grid points just before and just after that midpoint.
Ras(n, start) ==
    {0} \cup UNION { { wrap(n, start + k * (Circle(n) \div (2 * Res * ringNums(n)[r])))
                         : k \in { j \in 0..(2 * Res * ringNums(n)[r] - 1) :
                                     j % (2 * Res) \in {0, Res - 1, Res, Res + 1} } }
                     : r \in 1..n }

Coords(n, start) == Ras(n, start) \X Decs(n)

\* Indices: all of them, and two on either side.
Indices(n) == (-2)..(NumTracts(n) + 1)

----------------------------------------------------------------------------
\* The state machine.

Init ==
    /\ numRings \in 1..MaxRings
    /\ version \in {0, 1}
    /\ raStart \in RaStarts(numRings)
    /\ tractOverlap \in Overlaps
    /\ tractInfoList = <<>>
    /\ tractCache = <<>>
    /\ genCalls = <<>>
    /\ lastOp = "init"
    /\ lastArg = <<>>
    /\ result = <<>>
    /\ raised = "none"

\* A query is explored on a sky map that was just constructed (no tract
\* generated yet) and on one that was just iterated (every tract generated).
Explored == lastOp \in {"init", "iter"}

\* The effect of self[indices[1]], self[indices[2]], ... that left the cache
\* in state st: IndexError if one of them is out of range, else `returned`.
Fetched(st, indices, returned) ==
    /\ tractCache' = st.cache
    /\ genCalls' = st.calls
    /\ IF AllInRange(numRings, indices)
       THEN raised' = "none" /\ result' = returned
       ELSE raised' = "IndexError" /\ result' = <<>>

\* skymap[index]
GetItemStep(index) ==
    /\ lastOp' = "getitem"
    /\ lastArg' = <<index>>
    /\ Fetched(getitems(CacheState, version, numRings, raStart, <<index>>),
               <<index>>, <<index>>)
    /\ UNCHANGED <<numRings, version, raStart, tractOverlap, tractInfoList>>

\* skymap[index] on a sky map that is explored.
GetItem(index) == Explored /\ GetItemStep(index)

\* for tract in skymap
IterateStep ==
    /\ lastOp' = "iter"
    /\ lastArg' = <<>>
    /\ Fetched(getitems(CacheState, version, numRings, raStart, AllIds(numRings)),
               AllIds(numRings), AllIds(numRings))
    /\ UNCHANGED <<numRings, version, raStart, tractOverlap, tractInfoList>>

\* for tract in skymap on a sky map that is explored.
Iterate == Explored /\ IterateStep

\* skymap.findTract(coord)
FindTractStep(coord) ==
    /\ lastOp' = "findTract"
    /\ lastArg' = coord
    /\ Fetched(getitems(CacheState, version, numRings, raStart,
                        <<findTractIndex(version, numRings, raStart, coord)>>),
               <<findTractIndex(version, numRings, raStart, coord)>>,
               <<findTractIndex(version, numRings, raStart, coord)>>)
    /\ UNCHANGED <<numRings, version, raStart, tractOverlap, tractInfoList>>

\* skymap.findTract(coord) on a sky map that is explored.
FindTract(coord) == Explored /\ FindTractStep(coord)

\* The tracts of `probes` that contain coord, each taken from the cache.
containing(cache, n, ov, probes, coord) ==
    LET Hit(i) == contains(n, ov, cache[i], coord)
    IN  SelectSeq(probes, Hit)

\* skymap.findAllTracts(coord)
FindAllTractsStep(coord) ==
    /\ lastOp' = "findAllTracts"
    /\ lastArg' = coord
    /\ \E probes \in {allProbes(version, numRings, raStart, coord)} :
       \E st \in {getitems(CacheState, version, numRings, raStart, probes)} :
          Fetched(st, probes,
                  IF AllInRange(numRings, probes)
                  THEN containing(st.cache, numRings, tractOverlap, probes, coord)
                  ELSE <<>>)
    /\ UNCHANGED <<numRings, version, raStart, tractOverlap, tractInfoList>>

\* skymap.findAllTracts(coord) on a sky map that is explored.
FindAllTracts(coord) == Explored /\ FindAllTractsStep(coord)

Next ==
    \/ \E index \in Indices(numRings) : GetItem(index)
    \/ Iterate
    \/ \E coord \in Coords(numRings, raStart) : FindTract(coord)
    \/ \E coord \in Coords(numRings, raStart) : FindAllTracts(coord)

Spec == Init /\ [][Next]_vars

----------------------------------------------------------------------------
\* findTractPatchList, with TractInfo.findPatchList.

\* The patches of a tract: two along x (RA) by two along y (Dec).
PatchIndices == {0, 1} \X {0, 1}

SetMin(S) == CHOOSE x \in S : \A y \in S : x <= y
SetMax(S) == CHOOSE x \in S : \A y \in S : x >= y

\* RA offset of ra from cra, in (-Circle/2, Circle/2].
raOffset(n, ra, cra) ==
    LET d == wrap(n, ra - cra)
    IN  IF 2 * d > Circle(n) THEN d - Circle(n) ELSE d

\* TractInfo.findPatchList(coordList) of the tract centered at `center`: the
\* patches whose box meets the bounding box of the coordinates projected on
\* the tract (x: RA offset in units of Circle/(ringNums*lcm), 0 on a polar
\* cap; y: Dec offset).  The patches halve the tract's extent in x and in y.
findPatchList(n, ov, center, coordList) ==
    LET ringNum == decToRingNum(n, center[2])
        X(c) == IF ringNum \in {-1, n} THEN 0
                ELSE raOffset(n, c[1], center[1]) * ringNums(n)[ringNum + 1]
        Y(c) == c[2] - center[2]
        xs == {X(coordList[k]) : k \in 1..Len(coordList)}
        ys == {Y(coordList[k]) : k \in 1..Len(coordList)}
        W  == (Res + ov) * LcmTable[n]
        H  == Res + ov
        Lo(half, size) == IF half = 0 THEN -size ELSE 0
        Hi(half, size) == IF half = 0 THEN 0 ELSE size
    IN  IF coordList = <<>> THEN {}
        ELSE { p \in PatchIndices :
                 /\ SetMin(xs) <= Hi(p[1], W) /\ SetMax(xs) >= Lo(p[1], W)
                 /\ SetMin(ys) <= Hi(p[2], H) /\ SetMax(ys) >= Lo(p[2], H) }

\* entry in retList
InList(entry, retList) == \E k \in 1..Len(retList) : retList[k] = entry

\* The inner loop of findTractPatchList without the 'not in retList' test.
RECURSIVE appendTractsNoDedup(_, _, _, _, _, _)
appendTractsNoDedup(retList, cache, n, ov, tracts, coordList) ==
    IF tracts = <<>> THEN retList
    ELSE LET patchList == findPatchList(n, ov, cache[Head(tracts)], coordList)
             entry     == <<Head(tracts), patchList>>
         IN  appendTractsNoDedup(
                 IF patchList # {} THEN Append(retList, entry) ELSE retList,
                 cache, n, ov, Tail(tracts), coordList)

\* The inner loop of findTractPatchList: for each tract of findAllTracts(coord)
\* in order, append (tractInfo, patchList) if patchList is not empty and the
\* pair is not in retList.
RECURSIVE appendTracts(_, _, _, _, _, _)
appendTracts(retList, cache, n, ov, tracts, coordList) ==
    IF tracts = <<>> THEN retList
    ELSE LET patchList == findPatchList(n, ov, cache[Head(tracts)], coordList)
             entry     == <<Head(tracts), patchList>>
         IN  appendTracts(
                 IF patchList # {} /\ ~InList(entry, retList)
                 THEN Append(retList, entry) ELSE retList,
                 cache, n, ov, Tail(tracts), coordList)

\* The outer loop of findTractPatchList over the coordinates `rest`, from the
\* cache state and retList of acc: [st |-> cache state, ret |-> retList].
RECURSIVE patchListLoop(_, _, _, _, _, _, _)
patchListLoop(acc, ver, n, start, ov, rest, coordList) ==
    IF rest = <<>> THEN acc
    ELSE LET probes == allProbes(ver, n, start, Head(rest))
             st     == getitems(acc.st, ver, n, start, probes)
             tracts == containing(st.cache, n, ov, probes, Head(rest))
         IN  patchListLoop(
                 [st  |-> st,
                  ret |-> appendTracts(acc.ret, st.cache, n, ov, tracts, coordList)],
                 ver, n, start, ov, Tail(rest), coordList)

\* First coordinates of the lists: ring starts and ring centers in Dec, the
\* poles, tract centers and tract borders in RA.
PatchCoords(n, start) ==
    { c \in Coords(n, start) :
        /\ (c[2] - firstRingStart(n)) % Res = 0
        /\ \E r \in 1..n :
               (wrap(n, c[1] - start) * ringNums(n)[r]) % (Res * LcmTable[n]) = 0 }

\* The coordinates that follow c in a list: c again, c a quarter circle to
\* the east, and c one ring to the north (at most the pole).
Near(n, c) ==
    { c,
      <<wrap(n, c[1] + Circle(n) \div 4), c[2]>>,
      <<c[1], Min(c[2] + ringSize, HalfPi(n))>> }

\* The coordinate lists: the empty list, and lists of 1..MaxCoords
\* coordinates that start in PatchCoords and go on in Near of the first.
CoordLists(n, start) ==
    {<<>>} \cup
    UNION { { <<c>> \o rest :
                rest \in UNION { [1..len -> Near(n, c)] : len \in 0..(MaxCoords - 1) } }
            : c \in PatchCoords(n, start) }

\* skymap.findTractPatchList(coordList)
FindTractPatchList(coordList) ==
    /\ Explored
    /\ lastOp' = "findTractPatchList"
    /\ lastArg' = coordList
    /\ \E acc \in {patchListLoop([st |-> CacheState, ret |-> <<>>],
                                  version, numRings, raStart, tractOverlap,
                                  coordList, coordList)} :
          /\ tractCache' = acc.st.cache
          /\ genCalls' = acc.st.calls
          /\ result' = acc.ret
    /\ raised' = "none"
    /\ UNCHANGED <<numRings, version, raStart, tractOverlap, tractInfoList>>

NextPatchList ==
    \E coordList \in (IF Explored THEN CoordLists(numRings, raStart) ELSE {}) :
        FindTractPatchList(coordList)

SpecPatchList == Init /\ [][NextPatchList]_vars

----------------------------------------------------------------------------
\* Arbitrary sequences of lookups on one sky map, for the tract cache.

\* The sky maps of the sequences: one or two rings.
InitCache == Init /\ numRings <= 2

\* Indices looked up: the caps, the first ring tract, and one on either side
\* of the range.
CacheIndices(n) == {-1, 0, 1, NumTracts(n) - 1, NumTracts(n)}

\* Coordinates looked up: the north pole, the center of the first tract of
\* the first ring, and a point of the last ring one tract east of raStart.
CacheCoords(n, start) ==
    { <<start, HalfPi(n)>>,
      <<start, ringSize - HalfPi(n)>>,
      <<wrap(n, start + Circle(n) \div ringNums(n)[n]), ringSize * n - HalfPi(n)>> }

NextCache ==
    \/ \E index \in CacheIndices(numRings) : GetItemStep(index)
    \/ IterateStep
    \/ \E coord \in CacheCoords(numRings, raStart) : FindTractStep(coord)
    \/ \E coord \in CacheCoords(numRings, raStart) : FindAllTractsStep(coord)

SpecCache == InitCache /\ [][NextCache]_vars

----------------------------------------------------------------------------
\* BaseSkyMap: the brute-force queries over self._tractInfoList.

\* The orders in which n objects can lie in memory.
Addresses(n) ==
    {p \in [1..n -> 1..n] : \A j, k \in 1..n : (p[j] = p[k]) => (j = k)}

\* The tract lists of the sky maps: 1..MaxTracts tracts with ids 0, 1, ...
\* and the place of each in the default order of objects.
TractLists ==
    UNION { { [k \in 1..n |-> [id |-> k - 1, addr |-> p[k]]] : p \in Addresses(n) }
            : n \in 1..MaxTracts }

\* A coordinate, as far as the queries see it: its angular separation from
\* the center of each tract of the list.
Separations(list) == [1..Len(list) -> 0..MaxSep]

\* a < b for two (angSep, tractInfo) tuples: by angSep, then by the tracts.
tupleLess(a, b) ==
    \/ a[1] < b[1]
    \/ a[1] = b[1] /\ a[2].addr < b[2].addr

\* list.sort(): s with x inserted at its place, s sorted.
RECURSIVE insertSorted(_, _)
insertSorted(s, x) ==
    IF s = <<>> THEN <<x>>
    ELSE IF tupleLess(x, Head(s)) THEN <<x>> \o s
    ELSE <<Head(s)>> \o insertSorted(Tail(s), x)

RECURSIVE sortList(_)
sortList(s) ==
    IF s = <<>> THEN <<>> ELSE insertSorted(sortList(Tail(s)), Head(s))

\* BaseSkyMap.findTract without distTractInfoList.sort().
baseFindTractUnsorted(list, seps) ==
    LET distTractInfoList == [k \in 1..Len(list) |-> <<seps[k], list[k]>>]
    IN  distTractInfoList[1][2]

\* BaseSkyMap.findTract(coord): the tract of the first tuple of the sorted
\* list of (angSep, tractInfo).
baseFindTract(list, seps) ==
    LET distTractInfoList == [k \in 1..Len(list) |-> <<seps[k], list[k]>>]
    IN  sortList(distTractInfoList)[1][2]

\* The methods of class BaseSkyMap.
BaseSkyMapMethods ==
    {"__init__", "getNumPatches", "getPatchBorder", "getPixelScale",
     "getProjection", "getTractOverlap", "findTract", "findTractAndPatch",
     "__getitem__", "__iter__", "__len__"}

\* A sky map with a list of tracts; the ring configuration plays no part.
InitBase ==
    /\ tractInfoList \in TractLists
    /\ numRings = 1
    /\ version = 1
    /\ raStart = 0
    /\ tractOverlap = 0
    /\ tractCache = <<>>
    /\ genCalls = <<>>
    /\ lastOp = "init"
    /\ lastArg = <<>>
    /\ result = <<>>
    /\ raised = "none"

\* skymap.findTract(coord) of BaseSkyMap
BaseFindTract(seps) ==
    /\ lastOp' = "BaseSkyMap.findTract"
    /\ lastArg' = seps
    /\ result' = <<baseFindTract(tractInfoList, seps).id>>
    /\ raised' = "none"
    /\ UNCHANGED <<numRings, version, raStart, tractOverlap, tractInfoList,
                   tractCache, genCalls>>

\* skymap.findTractAndPatch(coord) of BaseSkyMap: self.findNearestTract is
\* looked up on the class; `inside` says whether the tract found has a patch
\* whose inner bbox contains coord (findPatch raises RuntimeError if not).
BaseFindTractAndPatch(seps, inside) ==
    /\ lastOp' = "BaseSkyMap.findTractAndPatch"
    /\ lastArg' = <<seps, inside>>
    /\ IF "findNearestTract" \notin BaseSkyMapMethods
       THEN raised' = "AttributeError" /\ result' = <<>>
       ELSE IF inside
       THEN raised' = "none" /\ result' = <<baseFindTract(tractInfoList, seps).id>>
       ELSE raised' = "RuntimeError" /\ result' = <<>>
    /\ UNCHANGED <<numRings, version, raStart, tractOverlap, tractInfoList,
                   tractCache, genCalls>>

NextBase ==
    \/ \E seps \in Separations(tractInfoList) : BaseFindTract(seps)
    \/ \E seps \in Separations(tractInfoList), inside \in BOOLEAN :
           BaseFindTractAndPatch(seps, inside)

SpecBase == InitBase /\ [][NextBase]_vars

----------------------------------------------------------------------------
\* Shorthands for the properties below, all for the sky map of the state.

\* The valid tract indices.
Ids == 0..(NumTracts(numRings) - 1)

\* The center generateTract gives tract i.
Center(i) == generateTract(version, numRings, raStart, i)

\* The index of in-ring position t of ring r in the numbering the class
\* documents: 1 + sum(ringNums[0:r]) + t.
LinearIndex(r, t) == 1 + SumSlice(ringNums(numRings), r, 0) + t

\* The (ring, tractNum) pairs of the ring tracts.
RingPairs ==
    UNION { { <<r, t>> : t \in 0..(ringNums(numRings)[r + 1] - 1) }
            : r \in 0..(numRings - 1) }

\* The center of in-ring position 0 of the last ring: RA = raStart.
FirstOfLastRing == <<raStart, ringSize * numRings - HalfPi(numRings)>>

\* The index of the duplicate of tract 1 in version 0.
DuplicateId == ringNums(numRings)[1] + 1

----------------------------------------------------------------------------
\* C1: in version 1, findTract at the center of tract i returns tract i, for
\* every index i, and the encode helpers applied to the center of a generated
\* tract give back the (ring, tractNum) that getRingIndices decodes.
C1_FindTractInvertsGenerateV1 ==
    version = 1 =>
        /\ lastOp = "findTract" =>
               \A i \in Ids : lastArg = Center(i) =>
                   raised = "none" /\ result = <<i>>
        /\ lastOp = "getitem" /\ raised = "none" =>
               LET i  == lastArg[1]
                   ri == getRingIndices(version, numRings, i)
                   c  == tractCache[i]
               IN  /\ decToRingNum(numRings, c[2]) = ri[1]
                   /\ raToTractNum(numRings, raStart, c[1], ri[1]) = ri[2]

\* findTract ran, in version 1, at the center of the first tract of a ring
\* after the first, with raStart off 0, and returned that tract.
C1_Witness ==
    /\ version = 1 /\ raStart # 0 /\ lastOp = "findTract"
    /\ \E i \in Ids :
          /\ getRingIndices(version, numRings, i)[1] \in 1..(numRings - 1)
          /\ getRingIndices(version, numRings, i)[2] = 0
          /\ lastArg = Center(i)
          /\ result = <<i>>

\* C2: in version 1, getRingIndices maps the indices 1..numTracts-2 one to one
\* onto the pairs (ring, tractNum) with 0 <= ring < numRings and
\* 0 <= tractNum < ringNums[ring], in the order
\* index = 1 + sum(ringNums[0:ring]) + tractNum.
C2_DecodeBijectionV1 ==
    version = 1 /\ lastOp = "getitem" /\ raised = "none" =>
        /\ { getRingIndices(version, numRings, i)
               : i \in 1..(NumTracts(numRings) - 2) } = RingPairs
        /\ Cardinality(RingPairs) = NumTracts(numRings) - 2
        /\ lastArg[1] \in 1..(NumTracts(numRings) - 2) =>
               LET ri == getRingIndices(version, numRings, lastArg[1])
               IN  /\ ri \in RingPairs
                   /\ lastArg[1] = LinearIndex(ri[1], ri[2])

\* A ring tract past the first ring was looked up in version 1.
C2_Witness ==
    /\ version = 1 /\ lastOp = "getitem" /\ raised = "none"
    /\ lastArg[1] \in 1..(NumTracts(numRings) - 2)
    /\ getRingIndices(version, numRings, lastArg[1])[1] >= 1
    /\ result = lastArg

\* C3: in version 0 with numRings >= 2, findTract at the center of tract i
\* returns tract i, except for i = ringNums[0] + 1, where it returns tract 1.
C3_FindTractAtCentersV0 ==
    version = 0 /\ numRings >= 2 /\ lastOp = "findTract" =>
        \A i \in Ids : lastArg = Center(i) =>
            /\ raised = "none"
            /\ result = <<IF i = DuplicateId THEN 1 ELSE i>>

\* findTract ran, in version 0, at the center of the first tract of a ring
\* after the first and returned the index that generates that center.
C3_Witness ==
    /\ version = 0 /\ numRings >= 2 /\ lastOp = "findTract"
    /\ lastArg[1] = raStart
    /\ decToRingNum(numRings, lastArg[2]) \in 1..(numRings - 2)
    /\ \E i \in Ids : lastArg = Center(i) /\ result = <<i>>

\* C4: in version 0 with numRings >= 2, tract 1 and tract ringNums[0] + 1 have
\* the same center (the first tract of the first ring is duplicated).
C4_DuplicateCenterV0 ==
    version = 0 /\ numRings >= 2 /\ lastOp = "iter" =>
        tractCache[1] = tractCache[DuplicateId]

\* A version-0 sky map of two or more rings, raStart off 0, was iterated, and
\* tracts 1 and ringNums[0] + 1 are both centered at raStart in the first ring.
C4_Witness ==
    /\ version = 0 /\ numRings >= 2 /\ raStart # 0 /\ lastOp = "iter"
    /\ tractCache[1] = <<raStart, ringSize - HalfPi(numRings)>>
    /\ tractCache[DuplicateId] = tractCache[1]

\* C4 as claimed, for every numRings > 0.
C4_AsClaimed ==
    version = 0 /\ lastOp = "iter" =>
        tractCache[1] = tractCache[DuplicateId]

\* C5: in version 0 with numRings >= 2, no index generates a tract centered at
\* RA = raStart in the last ring; in version 1 the index
\* 1 + sum(ringNums[0:numRings-1]) is in range and generates that tract.
C5_FirstOfLastRingMissingV0 ==
    /\ version = 0 /\ numRings >= 2 =>
           \A i \in DOMAIN tractCache : tractCache[i] # FirstOfLastRing
    /\ version = 1 =>
           /\ LinearIndex(numRings - 1, 0) \in DOMAIN tractCache =>
                  tractCache[LinearIndex(numRings - 1, 0)] = FirstOfLastRing
           /\ lastOp = "getitem" /\ lastArg = <<LinearIndex(numRings - 1, 0)>> =>
                  raised = "none" /\ result = lastArg

\* A version-0 sky map of two or more rings was iterated: every index was
\* decoded, and the last ring got tracts.
C5_Witness ==
    /\ version = 0 /\ numRings >= 2 /\ lastOp = "iter"
    /\ DOMAIN tractCache = Ids
    /\ \E i \in Ids : tractCache[i][2] = FirstOfLastRing[2]

\* C5 as claimed, for every numRings > 0.
C5_AsClaimed ==
    /\ version = 0 =>
           \A i \in DOMAIN tractCache : tractCache[i] # FirstOfLastRing
    /\ version = 1 /\ LinearIndex(numRings - 1, 0) \in DOMAIN tractCache =>
           tractCache[LinearIndex(numRings - 1, 0)] = FirstOfLastRing

\* findTract ran at RA = raStart and a declination of the last ring.
AtFirstOfLastRing ==
    /\ lastOp = "findTract"
    /\ lastArg[1] = raStart
    /\ decToRingNum(numRings, lastArg[2]) = numRings - 1

\* C6: findTract at RA = raStart and a declination of the last ring: in
\* version 0 with numRings >= 2 it returns the north polar cap (index
\* numTracts-1), no tract of the last ring, and the cap does not contain the
\* coordinate when the coordinate is farther from the pole than half a ring
\* plus the overlap; in version 1 it returns the first tract of the last ring,
\* which contains the coordinate.
C6_FirstOfLastRingRoutedToCapV0 ==
    AtFirstOfLastRing =>
        /\ raised = "none"
        /\ version = 0 /\ numRings >= 2 =>
               /\ result = <<NumTracts(numRings) - 1>>
               /\ decToRingNum(numRings, tractCache[result[1]][2]) # numRings - 1
               /\ HalfPi(numRings) - lastArg[2] > Res + tractOverlap =>
                      ~contains(numRings, tractOverlap,
                                tractCache[result[1]], lastArg)
        /\ version = 1 =>
               /\ result = <<LinearIndex(numRings - 1, 0)>>
               /\ tractCache[result[1]] = FirstOfLastRing
               /\ contains(numRings, tractOverlap, tractCache[result[1]], lastArg)

\* findTract ran in version 0 at the lower edge of the last ring, RA = raStart,
\* and returned the north cap, which does not contain the coordinate.
C6_Witness ==
    /\ AtFirstOfLastRing /\ version = 0 /\ numRings >= 2
    /\ lastArg[2] = firstRingStart(numRings) + ringSize * (numRings - 1)
    /\ result = <<NumTracts(numRings) - 1>>
    /\ ~contains(numRings, tractOverlap, tractCache[result[1]], lastArg)

\* C6 as claimed: for every numRings and every declination of the last ring,
\* version 0 returns the north cap and the cap does not contain the coordinate.
C6_AsClaimed ==
    AtFirstOfLastRing =>
        /\ version = 0 =>
               /\ result = <<NumTracts(numRings) - 1>>
               /\ ~contains(numRings, tractOverlap, tractCache[result[1]], lastArg)
        /\ version = 1 =>
               contains(numRings, tractOverlap, tractCache[result[1]], lastArg)

\* C7: both versions have the same numTracts, and for every index the two
\* versions decode the same (ring, tractNum) and generate the same center,
\* unless version 1 places the index at tractNum 0 of a ring after the first
\* (a tract centered at RA = raStart).
C7_VersionsDifferOnlyAtRaStart ==
    /\ lastOp = "iter" => Len(result) = SumSlice(ringNums(numRings), numRings, 2)
    /\ lastOp = "getitem" /\ raised = "none" =>
           LET i  == lastArg[1]
               v0 == getRingIndices(0, numRings, i)
               v1 == getRingIndices(1, numRings, i)
               c0 == generateTract(0, numRings, raStart, i)
               c1 == generateTract(1, numRings, raStart, i)
           IN  /\ tractCache[i] = IF version = 0 THEN c0 ELSE c1
               /\ (v0 # v1 \/ c0 # c1) =>
                      /\ v1[2] = 0
                      /\ v1[1] \in 1..(numRings - 1)
                      /\ c1[1] = raStart

\* A version-0 lookup of an index that version 1 places at tractNum 0 of a
\* later ring: the two versions give it different centers.
C7_Witness ==
    /\ version = 0 /\ lastOp = "getitem" /\ raised = "none"
    /\ getRingIndices(1, numRings, lastArg[1])[2] = 0
    /\ getRingIndices(1, numRings, lastArg[1])[1] \in 1..(numRings - 1)
    /\ tractCache[lastArg[1]] # generateTract(1, numRings, raStart, lastArg[1])

\* C8: in version 0 with numRings >= 2, the centers of all tracts take exactly
\* numTracts - 1 distinct values.
C8_OneDuplicateCenterV0 ==
    version = 0 /\ numRings >= 2 /\ lastOp = "iter" =>
        Cardinality({ tractCache[i] : i \in DOMAIN tractCache })
            = NumTracts(numRings) - 1

\* A version-0 sky map of two or more rings was iterated and every tract was
\* generated.
C8_Witness ==
    /\ version = 0 /\ numRings >= 2 /\ lastOp = "iter"
    /\ Len(result) = NumTracts(numRings)
    /\ DOMAIN tractCache = Ids
    /\ Cardinality({ tractCache[i] : i \in Ids }) < Cardinality(Ids)

\* C9: in both versions tract 0 is the south polar cap and tract numTracts-1
\* the north polar cap: they decode to (-1, 0) and (numRings, 0) and are
\* centered at (0, -pi/2) and (0, +pi/2) whatever raStart is.
C9_PolarCaps ==
    lastOp = "getitem" /\ raised = "none" =>
        /\ lastArg = <<0>> =>
               /\ getRingIndices(version, numRings, 0) = <<-1, 0>>
               /\ tractCache[0] = <<0, -HalfPi(numRings)>>
        /\ lastArg = <<NumTracts(numRings) - 1>> =>
               /\ getRingIndices(version, numRings, lastArg[1]) = <<numRings, 0>>
               /\ tractCache[lastArg[1]] = <<0, HalfPi(numRings)>>

\* The north cap was looked up on a sky map whose raStart is not 0.
C9_Witness ==
    /\ raStart # 0 /\ lastOp = "getitem" /\ raised = "none"
    /\ lastArg = <<NumTracts(numRings) - 1>>
    /\ tractCache[lastArg[1]] = <<0, HalfPi(numRings)>>

\* Only the polar cap at the pole of `coord` contains coord.
OnlyCapContains(coord) ==
    \A i \in Ids :
        contains(numRings, tractOverlap, Center(i), coord) =>
            i = (IF coord[2] > 0 THEN NumTracts(numRings) - 1 ELSE 0)

\* C10: findAllTracts at a pole (dec = +90 or -90 degrees, any RA) returns the
\* one-element list of that pole's cap tract, given that only the cap tract
\* contains the pole.
C10_PoleFindsOnlyCap ==
    lastOp = "findAllTracts" /\ Abs(lastArg[2]) = HalfPi(numRings)
        /\ OnlyCapContains(lastArg) =>
            /\ raised = "none"
            /\ result = <<IF lastArg[2] > 0 THEN NumTracts(numRings) - 1 ELSE 0>>

----------------------------------------------------------------------------
\* findAllTracts against its candidates.

\* The center of the tract at in-ring position t of ring r.
PositionCenter(r, t) ==
    << wrap(numRings, raStart
                + (Circle(numRings) * t) \div ringNums(numRings)[r + 1]),
       ringSize * (r + 1) - HalfPi(numRings) >>

\* The rings findAllTracts looks at for a declination: the resolved ring and
\* its two neighbours, as far as they are real rings.
CandidateRings(dec) ==
    LET ringNum == decToRingNum(numRings, dec)
    IN  {ringNum - 1, ringNum, ringNum + 1} \cap (0..(numRings - 1))

\* The positions looked at in ring r: the resolved one and its left and right
\* neighbours, wrapping at the ring ends.
CandidatePositions(ra, r) ==
    LET count == ringNums(numRings)[r + 1]
        t0    == raToTractNum(numRings, raStart, ra, r)
    IN  {(t0 + d) % count : d \in {-1, 0, 1}}

\* Tract i is a candidate for coord: a polar cap, or a ring tract that
\* decodes to one of the candidate positions.
IsCandidate(i, coord) ==
    \/ i \in {0, NumTracts(numRings) - 1}
    \/ LET rt == getRingIndices(version, numRings, i)
       IN  /\ rt[1] \in CandidateRings(coord[2])
           /\ rt[2] % ringNums(numRings)[rt[1] + 1]
                  \in CandidatePositions(coord[1], rt[1])

\* Some tract of the sky map is centered at c.
HasTractAt(c) == \E i \in Ids : Center(i) = c

\* C11: findAllTracts(coord) returns exactly the candidate tracts that
\* contain coord.  Every returned tract is a candidate (a polar cap, or the
\* tract at the resolved position or its left or right neighbour, in the
\* resolved ring or a neighbouring ring) and contains coord; every polar cap
\* that contains coord is returned; and for every candidate position whose
\* tract contains coord, the tract at that position is returned.
C11_FindAllTractsFiltersCandidates ==
    (lastOp = "findAllTracts") =>
        LET coord == lastArg
            Has(c) == contains(numRings, tractOverlap, c, coord)
            Returned == {result[k] : k \in 1..Len(result)}
        IN  /\ raised = "none"
            /\ \A i \in Returned :
                   /\ i \in Ids
                   /\ IsCandidate(i, coord)
                   /\ Has(Center(i))
            /\ \A i \in {0, NumTracts(numRings) - 1} :
                   Has(Center(i)) => i \in Returned
            /\ \A r \in CandidateRings(coord[2]) :
                   \A t \in CandidatePositions(coord[1], r) :
                       Has(PositionCenter(r, t)) =>
                           \/ \E i \in Returned :
                                  tractCache[i] = PositionCenter(r, t)
                           \/ ~HasTractAt(PositionCenter(r, t))

\* A coordinate on the border of two rings and of two tracts in each: four
\* ring tracts of two rings are returned, and a candidate is left out.
C11_Witness ==
    /\ lastOp = "findAllTracts"
    /\ Len(result) >= 4
    /\ \E j, k \in 1..Len(result) : tractCache[result[j]][2] # tractCache[result[k]][2]
    /\ \E i \in Ids : /\ IsCandidate(i, lastArg)
                       /\ \A k \in 1..Len(result) : result[k] # i

----------------------------------------------------------------------------
\* Wraparound in right ascension.

\* The ring tracts: every tract but the two polar caps.
RingIds == Ids \ {0, NumTracts(numRings) - 1}

\* dec is the center declination of a ring.
IsRingCenterDec(dec) ==
    \E r \in 0..(numRings - 1) : dec = ringSize * (r + 1) - HalfPi(numRings)

\* C12: for every ring tract (in version 0 other than the duplicate index
\* ringNums[0] + 1), a coordinate at the tract's center declination whose RA
\* is less than half the tract's RA width away from the center, on either
\* side, is resolved by findTract to that tract; and an RA less than half a
\* tract width below raStart resolves to in-ring position 0.
C12_WraparoundAtRaStart ==
    (lastOp = "findTract" /\ IsRingCenterDec(lastArg[2])) =>
        LET ra    == lastArg[1]
            ring  == decToRingNum(numRings, lastArg[2])
            count == ringNums(numRings)[ring + 1]
        IN  /\ \A i \in RingIds :
                   ( /\ ~(version = 0 /\ i = DuplicateId)
                     /\ Center(i)[2] = lastArg[2]
                     /\ 2 * count * raDist(numRings, ra, Center(i)[1])
                            < Circle(numRings) )
                   => result = <<i>>
            /\ ( /\ wrap(numRings, ra - raStart) # 0
                 /\ 2 * count * wrap(numRings, raStart - ra) < Circle(numRings) )
               => raToTractNum(numRings, raStart, ra, ring) = 0

\* An RA one unit below a nonzero raStart, at the center declination of a
\* ring other than the first, resolves to the tract centered at raStart.
C12_Witness ==
    /\ lastOp = "findTract"
    /\ raStart # 0
    /\ lastArg[1] = raStart - 1
    /\ decToRingNum(numRings, lastArg[2]) \in 1..(numRings - 1)
    /\ IsRingCenterDec(lastArg[2])
    /\ Len(result) = 1
    /\ result[1] \in RingIds
    /\ tractCache[result[1]] = <<raStart, lastArg[2]>>

----------------------------------------------------------------------------
\* Declination to ring.

\* C13: _decToRingNum selects ring r of [0, numRings) exactly when the
\* declination lies in [firstRingStart + r*ringSize,
\* firstRingStart + (r+1)*ringSize), gives -1 below the first ring's start
\* and numRings above the last ring's end; findTract returns tract 0 resp.
\* tract numTracts-1 for these cap declinations whatever the RA, and in
\* version 1 a tract of ring r for a declination of ring r.
C13_DecToRingNumHalfOpen ==
    (lastOp = "findTract") =>
        LET dec   == lastArg[2]
            ring  == decToRingNum(numRings, dec)
            first == firstRingStart(numRings)
            last  == first + numRings * ringSize
        IN  /\ \A r \in 0..(numRings - 1) :
                   (ring = r) <=> ( /\ first + r * ringSize <= dec
                                    /\ dec < first + (r + 1) * ringSize )
            /\ (dec < first) => (ring = -1 /\ result = <<0>>)
            /\ (dec > last) =>
                   (ring = numRings /\ result = <<NumTracts(numRings) - 1>>)
            /\ (version = 1 /\ ring \in 0..(numRings - 1)) =>
                   /\ Len(result) = 1
                   /\ getRingIndices(version, numRings, result[1])[1] = ring

\* A declination on the border of rings 0 and 1 resolves to ring 1, and one
\* unit below it to ring 0.
C13_Witness ==
    /\ lastOp = "findTract"
    /\ numRings >= 2
    /\ lastArg[2] = firstRingStart(numRings) + ringSize
    /\ decToRingNum(numRings, lastArg[2]) = 1
    /\ decToRingNum(numRings, lastArg[2] - 1) = 0
    /\ version = 1
    /\ getRingIndices(version, numRings, result[1])[1] = 1

----------------------------------------------------------------------------
\* Index errors.

\* C14: skymap[index] for an index outside [0, numTracts) raises IndexError,
\* in both versions, and generates no tract for that index (none is cached
\* and generateTract was not called for it); for an index inside
\* [0, numTracts) it raises nothing, returns that tract, and the index
\* decodes to a ring of -1..numRings and a position within that ring.
C14_IndexErrorOutsideRange ==
    (lastOp = "getitem") =>
        LET index == lastArg[1]
            rt    == getRingIndices(version, numRings, index)
        IN  /\ DOMAIN tractCache \subseteq Ids
            /\ DOMAIN genCalls \subseteq Ids
            /\ (index \notin Ids) =>
                   /\ raised = "IndexError"
                   /\ result = <<>>
            /\ (index \in Ids) =>
                   /\ raised = "none"
                   /\ result = <<index>>
                   /\ index \in DOMAIN tractCache
                   /\ rt[1] \in -1..numRings
                   /\ IF rt[1] \in {-1, numRings} THEN rt[2] = 0
                      ELSE rt[2] \in 0..ringNums(numRings)[rt[1] + 1]

\* Index numTracts and index -1 raise IndexError on a sky map that has
\* generated nothing, and nothing is generated.
C14_Witness ==
    /\ lastOp = "getitem"
    /\ lastArg[1] \in {-1, NumTracts(numRings)}
    /\ raised = "IndexError"
    /\ tractCache = <<>>
    /\ genCalls = <<>>

----------------------------------------------------------------------------
\* findTract stays in range.

\* C19: in both versions, for every configuration and coordinate, findTract
\* raises no IndexError: the index it computes lies in [0, numTracts), also
\* after the version-0 step to the next ring, and the in-ring position that
\* _raToTractNum gives for the RA lies in [0, ringNums[ring]) for every ring.
C19_FindTractIndexInRange ==
    (lastOp = "findTract") =>
        /\ raised = "none"
        /\ findTractIndex(version, numRings, raStart, lastArg) \in Ids
        /\ result = <<findTractIndex(version, numRings, raStart, lastArg)>>
        /\ \A r \in 0..(numRings - 1) :
               raToTractNum(numRings, raStart, lastArg[1], r)
                   \in 0..(ringNums(numRings)[r + 1] - 1)

\* Version 0, last ring, in-ring position 0: the step to the next ring ends
\* at index numTracts-1.
C19_Witness ==
    /\ lastOp = "findTract"
    /\ version = 0
    /\ numRings >= 2
    /\ decToRingNum(numRings, lastArg[2]) = numRings - 1
    /\ raToTractNum(numRings, raStart, lastArg[1], numRings - 1) = 0
    /\ raised = "none"
    /\ result = <<NumTracts(numRings) - 1>>

----------------------------------------------------------------------------
\* Repeated tracts in findAllTracts.

\* The indices findAllTracts probes in its ring loop for coord: all it
\* probes but the two polar caps of the final pole check.
RingLoopProbes(coord) ==
    LET probes == allProbes(version, numRings, raStart, coord)
    IN  SubSeq(probes, 1, Len(probes) - 2)

\* No element of the sequence occurs twice.
NoRepeat(s) == \A j, k \in 1..Len(s) : (s[j] = s[k]) => (j = k)

\* C20: in both versions and for every coordinate, findAllTracts returns no
\* tract twice: the indices probed in the ring loop are pairwise distinct and
\* none of them is a polar-cap index, 0 or numTracts-1.
C20_FindAllTractsNoRepeat ==
    (lastOp = "findAllTracts") =>
        /\ NoRepeat(result)
        /\ NoRepeat(RingLoopProbes(lastArg))
        /\ \A k \in 1..Len(RingLoopProbes(lastArg)) :
               RingLoopProbes(lastArg)[k] \notin {0, NumTracts(numRings) - 1}

----------------------------------------------------------------------------
\* findTractPatchList against findAllTracts and findPatchList.

\* What findAllTracts(coord) reports: the probed tracts that contain coord.
Reported(coord) ==
    LET Hit(i) == contains(numRings, tractOverlap, Center(i), coord)
    IN  SelectSeq(allProbes(version, numRings, raStart, coord), Hit)

\* The tracts reported for the coordinates of the list, one coordinate after
\* the other.
RECURSIVE ReportedForAll(_)
ReportedForAll(coordList) ==
    IF coordList = <<>> THEN <<>>
    ELSE Reported(Head(coordList)) \o ReportedForAll(Tail(coordList))

\* Where i first occurs in s.
FirstAt(s, i) == SetMin({k \in 1..Len(s) : s[k] = i})

\* C15: findTractPatchList(coordList) returns exactly the tracts that
\* findAllTracts reports for at least one coordinate of the list and whose
\* findPatchList(coordList) is not empty: each of them in exactly one entry,
\* with that patch list, in the order in which they are first encountered;
\* no entry has an empty patch list.
C15_FindTractPatchListDedup ==
    (lastOp = "findTractPatchList") =>
        LET coordList == lastArg
            seen == ReportedForAll(coordList)
            Patches(i) == findPatchList(numRings, tractOverlap, Center(i), coordList)
        IN  /\ raised = "none"
            /\ {result[k][1] : k \in 1..Len(result)}
                   = {seen[k] : k \in {j \in 1..Len(seen) : Patches(seen[j]) # {}}}
            /\ \A j, k \in 1..Len(result) :
                   (result[j][1] = result[k][1]) => (j = k)
            /\ \A k \in 1..Len(result) :
                   /\ result[k][2] = Patches(result[k][1])
                   /\ result[k][2] # {}
            /\ \A j, k \in 1..Len(result) :
                   (j < k) => FirstAt(seen, result[j][1]) < FirstAt(seen, result[k][1])

\* Two different coordinates that share a tract and each have a tract of
\* their own: the shared tract is in one entry.
C15_Witness ==
    /\ lastOp = "findTractPatchList"
    /\ Len(lastArg) = 2
    /\ lastArg[1] # lastArg[2]
    /\ \E i, j, k \in Ids :
          /\ i # j /\ i # k /\ j # k
          /\ \E a \in 1..Len(result) : result[a][1] = i
          /\ \E a \in 1..Len(result) : result[a][1] = j
          /\ \E a \in 1..Len(result) : result[a][1] = k
          /\ contains(numRings, tractOverlap, Center(i), lastArg[1])
          /\ contains(numRings, tractOverlap, Center(i), lastArg[2])
          /\ ~contains(numRings, tractOverlap, Center(j), lastArg[2])
          /\ ~contains(numRings, tractOverlap, Center(k), lastArg[1])

----------------------------------------------------------------------------
\* The tract cache.

\* C16: over any sequence of skymap[index], findTract, findAllTracts and
\* iteration on one sky map, generateTract is called at most once per index:
\* a step calls it once for each index it is the first to access and stores
\* the tract, and leaves every tract already cached, and its count, as it is;
\* the tracts a step returns are in the cache.
C16_GenerateAtMostOnce ==
    [][ /\ \A i \in DOMAIN genCalls' : genCalls'[i] <= 1
        /\ DOMAIN genCalls' = DOMAIN tractCache'
        /\ \A i \in DOMAIN tractCache :
               /\ i \in DOMAIN tractCache'
               /\ tractCache'[i] = tractCache[i]
               /\ genCalls'[i] = genCalls[i]
        /\ \A i \in DOMAIN tractCache' \ DOMAIN tractCache :
               /\ genCalls'[i] = 1
               /\ tractCache'[i] = generateTract(version, numRings, raStart, i)
        /\ \A k \in 1..Len(result') : result'[k] \in DOMAIN tractCache'
      ]_vars

\* findAllTracts on a sky map whose tracts have all been generated by an
\* iteration: the tracts it returns were each generated once.
C16_Witness ==
    /\ lastOp = "findAllTracts"
    /\ DOMAIN tractCache = Ids
    /\ Len(result) >= 2
    /\ \A k \in 1..Len(result) : genCalls[result[k]] = 1

----------------------------------------------------------------------------
\* BaseSkyMap.

\* C17: BaseSkyMap.findTract(coord) returns a tract whose center has the
\* least angular separation from coord among all tracts of the sky map; when
\* several are at that separation, one of them.
C17_BaseFindTractNearest ==
    (lastOp = "BaseSkyMap.findTract") =>
        /\ raised = "none"
        /\ Len(result) = 1
        /\ \E k \in 1..Len(tractInfoList) :
               /\ tractInfoList[k].id = result[1]
               /\ \A j \in 1..Len(tractInfoList) : lastArg[k] <= lastArg[j]

\* Three tracts, the first two at the same separation and nearer than the
\* third: the second is returned (it comes first in the order of objects).
C17_Witness ==
    /\ lastOp = "BaseSkyMap.findTract"
    /\ Len(tractInfoList) = 3
    /\ lastArg[1] = lastArg[2]
    /\ lastArg[2] < lastArg[3]
    /\ result = <<1>>

\* C18: BaseSkyMap.findTractAndPatch(coord) returns the tract that
\* findTract(coord) returns, with its patch whose inner bbox contains coord,
\* and raises RuntimeError only when coord is on no tract (nothing else is
\* raised).
C18_FindTractAndPatchReturnsNearest ==
    (lastOp = "BaseSkyMap.findTractAndPatch") =>
        /\ raised \in {"none", "RuntimeError"}
        /\ (raised = "RuntimeError") => ~lastArg[2]
        /\ (raised = "none") =>
               result = <<baseFindTract(tractInfoList, lastArg[1]).id>>

----------------------------------------------------------------------------
\* findTract against findAllTracts.

\* i is an element of the sequence s.
InSeq(i, s) == \E k \in 1..Len(s) : s[k] = i

\* C21: in both versions and for every coordinate, the index findTract
\* returns is one of the indices findAllTracts probes; so whenever the tract
\* findTract returns contains the coordinate, it is in the list findAllTracts
\* returns.
C21_FindTractAmongProbes ==
    LET index  == findTractIndex(version, numRings, raStart, lastArg)
        probes == allProbes(version, numRings, raStart, lastArg)
    IN  /\ (lastOp = "findTract") =>
               /\ result = <<index>>
               /\ InSeq(result[1], probes)
        /\ (lastOp = "findAllTracts") =>
               /\ InSeq(index, probes)
               /\ index \in DOMAIN tractCache
               /\ contains(numRings, tractOverlap, Center(index), lastArg)
                      => InSeq(index, result)

\* Version 0, a ring above the first, in-ring position 0: findTract steps to
\* the next ring, and findAllTracts returns that tract among others.
C21_Witness ==
    /\ lastOp = "findAllTracts"
    /\ version = 0
    /\ decToRingNum(numRings, lastArg[2]) \in 1..(numRings - 2)
    /\ raToTractNum(numRings, raStart, lastArg[1],
                    decToRingNum(numRings, lastArg[2])) = 0
    /\ findTractIndex(version, numRings, raStart, lastArg)
           = LinearIndex(decToRingNum(numRings, lastArg[2]) + 1, 0)
    /\ InSeq(findTractIndex(version, numRings, raStart, lastArg), result)
    /\ Len(result) >= 2

----------------------------------------------------------------------------
\* The duplicate index of version 0 in the queries.

\* C22: in version 0 with numRings >= 2, the duplicate index ringNums[0] + 1
\* is never what findTract returns and is never probed (so never generated
\* and never returned) by findAllTracts, for any coordinate; a coordinate at
\* its center is resolved by findTract to tract 1.
C22_DuplicateNeverReached ==
    (version = 0 /\ numRings >= 2) =>
        /\ (lastOp = "findTract") =>
               /\ result # <<DuplicateId>>
               /\ findTractIndex(version, numRings, raStart, lastArg) # DuplicateId
               /\ (lastArg = Center(DuplicateId)) => result = <<1>>
        /\ (lastOp = "findAllTracts") =>
               /\ ~InSeq(DuplicateId, allProbes(version, numRings, raStart, lastArg))
               /\ ~InSeq(DuplicateId, result)
        /\ (lastOp \in {"findTract", "findAllTracts"} /\ DOMAIN tractCache # Ids)
           => DuplicateId \notin DOMAIN tractCache

\* findAllTracts at the center of the duplicate index, on a sky map that has
\* generated nothing before: tract 1 is returned, the duplicate index is not
\* generated.
C22_Witness ==
    /\ version = 0
    /\ numRings >= 2
    /\ lastOp = "findAllTracts"
    /\ lastArg = Center(DuplicateId)
    /\ InSeq(1, result)
    /\ DuplicateId \notin DOMAIN tractCache

----------------------------------------------------------------------------
\* Rounding of the RA.

\* C23: in every ring, an RA exactly halfway between the centers of in-ring
\* positions t and t+1 resolves to t+1, halfway between the last position
\* and the first to position 0, and an RA strictly nearer to the center of
\* position t than to any other center of the ring resolves to t; findTract
\* of version 1 returns the tract at that position of the resolved ring.
C23_RaRoundsHalfUp ==
    (lastOp = "findTract") =>
        LET ra   == lastArg[1]
            x    == wrap(numRings, ra - raStart)
            ring == decToRingNum(numRings, lastArg[2])
        IN  /\ \A r \in 0..(numRings - 1) :
                   LET count == ringNums(numRings)[r + 1]
                       pos   == raToTractNum(numRings, raStart, ra, r)
                   IN  \A t \in 0..(count - 1) :
                           /\ (2 * count * x = (2 * t + 1) * Circle(numRings))
                                  => pos = (t + 1) % count
                           /\ (2 * count * raDist(numRings, ra, PositionCenter(r, t)[1])
                                  < Circle(numRings))
                                  => pos = t
            /\ (version = 1 /\ ring \in 0..(numRings - 1)) =>
                   result = <<LinearIndex(ring,
                                raToTractNum(numRings, raStart, ra, ring))>>

\* An RA halfway between the last tract of a ring and the tract at raStart,
\* raStart not 0: version 1 returns the first tract of the ring.
C23_Witness ==
    /\ lastOp = "findTract"
    /\ version = 1
    /\ raStart # 0
    /\ decToRingNum(numRings, lastArg[2]) \in 0..(numRings - 1)
    /\ LET r     == decToRingNum(numRings, lastArg[2])
           count == ringNums(numRings)[r + 1]
       IN  /\ 2 * count * wrap(numRings, lastArg[1] - raStart)
                  = (2 * count - 1) * Circle(numRings)
           /\ result = <<LinearIndex(r, 0)>>

====
